---- MODULE Spec2Model ----
(***************************************************************************)
(* Model of src/Python/download_data/config_utils.py: the corpus assembly  *)
(* (get_df), the lemmatization pipeline (lemmatization), the Parquet       *)
(* writer (save_parquet) and the environment check (verify_environment).   *)
(* Python strings are sequences of one-character strings.                  *)
(***************************************************************************)
EXTENDS Integers, Sequences, FiniteSets, TLC

VARIABLES
    \* get_df
    text_files, disk, countries, years, constitutions, idx, pc_get, df,
    \* lemmatization
    texts, model_ok, batch_size, consumed, out, pc_lem, lem_result,
    \* save_parquet
    save_path, save_df, written, pc_save,
    \* verify_environment
    installed, pkg_idx, missing, warnings, pc_env,
    \* the file-name parsing of get_df on its own
    parse_name, parse_country, parse_year, pc_parse,
    \* the token comprehension of lemmatization on one document
    doc_text, doc_tokens, pc_doc

getVars  == <<text_files, disk, countries, years, constitutions, idx, pc_get, df>>
lemVars  == <<texts, model_ok, batch_size, consumed, out, pc_lem, lem_result>>
saveVars == <<save_path, save_df, written, pc_save>>
envVars  == <<installed, pkg_idx, missing, warnings, pc_env>>
parseVars == <<parse_name, parse_country, parse_year, pc_parse>>
docVars  == <<doc_text, doc_tokens, pc_doc>>
vars     == <<getVars, lemVars, saveVars, envVars, parseVars, docVars>>

\* what a function leaves alone: the state of the other functions
notGetVars   == <<lemVars, saveVars, envVars, parseVars, docVars>>
notLemVars   == <<getVars, saveVars, envVars, parseVars, docVars>>
notSaveVars  == <<getVars, lemVars, envVars, parseVars, docVars>>
notEnvVars   == <<getVars, lemVars, saveVars, parseVars, docVars>>
notParseVars == <<getVars, lemVars, saveVars, envVars, docVars>>
notDocVars   == <<getVars, lemVars, saveVars, envVars, parseVars>>

(***************************************************************************)
(* Bounds                                                                  *)
(***************************************************************************)
MaxFiles == 2
MaxStemLen == 2
MaxTexts == 3
MaxTextLen == 1
MaxDocLen == 4
MaxParseLen == 5
MaxBatch == 2

SeqsUpTo(S, n) == UNION {[1..k -> S] : k \in 0..n}

Max(S) == CHOOSE x \in S : \A y \in S : y <= x

(***************************************************************************)
(* Python str / list / pathlib helpers used by the module                  *)
(***************************************************************************)
\* str.rfind(c) + 1: the last position of c in s, 0 when absent
RFind(s, c) ==
    LET hits == {i \in 1..Len(s) : s[i] = c}
    IN  IF hits = {} THEN 0 ELSE Max(hits)

\* str.find(c) + 1: the first position of c in s, 0 when absent
Find(s, c) ==
    LET hits == {i \in 1..Len(s) : s[i] = c}
    IN  IF hits = {} THEN 0 ELSE CHOOSE i \in hits : \A j \in hits : i <= j

\* PurePath.suffix: the last dot-suffix of the final component, "" when the
\* only dot is leading or trailing
Suffix(name) ==
    LET p == RFind(name, ".")
    IN  IF 1 < p /\ p < Len(name) THEN SubSeq(name, p, Len(name)) ELSE <<>>

\* PurePath.stem: the final component without its suffix
Stem(name) ==
    LET p == RFind(name, ".")
    IN  IF 1 < p /\ p < Len(name) THEN SubSeq(name, 1, p - 1) ELSE name

\* str.split(sep) with an explicit separator: never returns an empty list
RECURSIVE Split(_, _)
Split(s, sep) ==
    LET p == Find(s, sep)
    IN  IF p = 0 THEN <<s>>
        ELSE <<SubSeq(s, 1, p - 1)>> \o Split(SubSeq(s, p + 1, Len(s)), sep)

\* sep.join(parts)
RECURSIVE Join(_, _)
Join(parts, sep) ==
    IF parts = <<>> THEN <<>>
    ELSE IF Len(parts) = 1 THEN parts[1]
    ELSE parts[1] \o <<sep>> \o Join(Tail(parts), sep)

\* ' '.join(stem.split('_')[:-1])
CountryOf(stem) ==
    LET parts == Split(stem, "_")
    IN  Join(SubSeq(parts, 1, Len(parts) - 1), " ")

\* stem.split('_')[0]: the first segment instead of the last
YearOfFirst(stem) ==
    LET parts == Split(stem, "_")
    IN  parts[1]

\* stem.split('_')[-1]
YearOf(stem) ==
    LET parts == Split(stem, "_")
    IN  parts[Len(parts)]

(***************************************************************************)
(* get_df                                                                  *)
(***************************************************************************)
StemChars == {"B", "_"}
ParseChars == {"B", "_", "9"}
TxtExt == <<".", "t", "x", "t">>
Names == {s \o TxtExt : s \in SeqsUpTo(StemChars, MaxStemLen)}

NoName == <<"?">>
\* disk[n] of a name open() fails on
Missing == <<"ENOENT">>
BadByte == "xFF"

\* the bytes stored under a name: an undecodable byte, then the name
RawBytes(n) == <<BadByte>> \o n

\* f.read() of a file opened with encoding='utf-8', errors='ignore'
Decode(bytes) == SelectSeq(bytes, LAMBDA b : b # BadByte)

\* a frame whose third column is called 'text'
DataFrameText(c, y, t) ==
    [columns |-> <<"country", "year", "text">>, data |-> <<c, y, t>>]

\* pd.DataFrame({'country': c, 'year': y, 'constitution': t})
DataFrame(c, y, t) ==
    [columns |-> <<"country", "year", "constitution">>, data |-> <<c, y, t>>]

\* no frame was returned
NoFrame == [columns |-> <<>>, data |-> <<>>]

NRows(frame) == Len(frame.data[1])

Row(frame, i) == [k \in 1..Len(frame.columns) |-> frame.data[k][i]]

ParseNames == {s \o TxtExt : s \in SeqsUpTo(ParseChars, MaxParseLen)}

ParseInit ==
    /\ parse_name \in ParseNames
    /\ parse_country = <<>>
    /\ parse_year = <<>>
    /\ pc_parse = "call"

\* the metadata extraction of one loop iteration (lines 103-106)
ParseName ==
    /\ pc_parse = "call"
    /\ LET stem == Stem(parse_name)
       IN  /\ parse_country' = CountryOf(stem)
           /\ parse_year' = YearOf(stem)
    /\ pc_parse' = "parsed"
    /\ UNCHANGED parse_name
    /\ UNCHANGED notParseVars

ParseNext == ParseName

GetInit ==
    /\ text_files \in SeqsUpTo(Names, MaxFiles)
    /\ disk \in {[n \in Names |-> IF n = m THEN Missing ELSE RawBytes(n)] :
                    m \in Names \cup {NoName}}
    /\ countries = <<>>
    /\ years = <<>>
    /\ constitutions = <<>>
    /\ idx = 1
    /\ pc_get = "loop"
    /\ df = NoFrame

\* a loop body that drops a path it has already seen
GetDfIterDedup ==
    /\ pc_get = "loop"
    /\ idx <= Len(text_files)
    /\ disk[text_files[idx]] # Missing
    /\ LET text_path == text_files[idx]
           stem == Stem(text_path)
           seen == \E j \in 1..(idx - 1) : text_files[j] = text_path
       IN  /\ countries' = IF seen THEN countries ELSE Append(countries, CountryOf(stem))
           /\ years' = IF seen THEN years ELSE Append(years, YearOf(stem))
           /\ constitutions' = IF seen THEN constitutions
                               ELSE Append(constitutions, Decode(disk[text_path]))
    /\ idx' = idx + 1
    /\ UNCHANGED <<text_files, disk, pc_get, df>>
    /\ UNCHANGED notGetVars

\* one iteration of the for loop whose open() succeeds (lines 101-109)
GetDfIter ==
    /\ pc_get = "loop"
    /\ idx <= Len(text_files)
    /\ disk[text_files[idx]] # Missing
    /\ LET text_path == text_files[idx]
           stem == Stem(text_path)
       IN  /\ countries' = Append(countries, CountryOf(stem))
           /\ years' = Append(years, YearOf(stem))
           /\ constitutions' = Append(constitutions, Decode(disk[text_path]))
    /\ idx' = idx + 1
    /\ UNCHANGED <<text_files, disk, pc_get, df>>
    /\ UNCHANGED notGetVars

\* an iteration that swallows the failure of open() and goes on
GetDfOpenFailSkip ==
    /\ pc_get = "loop"
    /\ idx <= Len(text_files)
    /\ disk[text_files[idx]] = Missing
    /\ idx' = idx + 1
    /\ UNCHANGED <<text_files, disk, countries, years, constitutions, pc_get, df>>
    /\ UNCHANGED notGetVars

\* one iteration whose open() raises: the metadata was appended already
\* (lines 105-106), the exception leaves get_df uncaught (line 108)
GetDfOpenFail ==
    /\ pc_get = "loop"
    /\ idx <= Len(text_files)
    /\ disk[text_files[idx]] = Missing
    /\ LET stem == Stem(text_files[idx])
       IN  /\ countries' = Append(countries, CountryOf(stem))
           /\ years' = Append(years, YearOf(stem))
    /\ pc_get' = "raised"
    /\ UNCHANGED <<text_files, disk, constitutions, idx, df>>
    /\ UNCHANGED notGetVars

\* return pd.DataFrame({...}) (lines 111-115)
GetDfReturn ==
    /\ pc_get = "loop"
    /\ idx > Len(text_files)
    /\ df' = DataFrame(countries, years, constitutions)
    /\ pc_get' = "done"
    /\ UNCHANGED <<text_files, disk, countries, years, constitutions, idx>>
    /\ UNCHANGED notGetVars

GetNext == GetDfIter \/ GetDfOpenFail \/ GetDfReturn

(***************************************************************************)
(* lemmatization                                                           *)
(***************************************************************************)
\* A text is given by its whitespace-separated pieces, punctuation spaced out
Vocab == {<<"B", "r">>, <<"l", "a", "w", "s">>, <<".">>}
Texts == SeqsUpTo(Vocab, MaxTextLen)

\* nlp.pipe(texts, batch_size=50)
batch_size_default == 50
BatchSizes == (1..MaxBatch) \cup {batch_size_default}

\* what the call has handed to its caller: nothing yet, the OSError with the
\* install hint, or the list
NoResult == [status |-> "none", value |-> <<>>]
ModelNotFound == [status |-> "OSError: spaCy model not found", value |-> <<>>]
Returned(v) == [status |-> "returned", value |-> v]

Min(a, b) == IF a <= b THEN a ELSE b

\* token.lemma_: the base form, a plural loses its final s, case is kept
LemmaOf(word) ==
    IF Len(word) > 1 /\ word[Len(word)] = "s"
    THEN SubSeq(word, 1, Len(word) - 1) ELSE word

\* nlp(text): the Doc of the loaded pipeline (parser and ner disabled), one
\* token per piece, a deterministic function of the text alone
nlp(text) ==
    [i \in 1..Len(text) |->
        [text |-> text[i], lemma_ |-> LemmaOf(text[i]),
         is_punct |-> (text[i] = <<".">>)]]

UpperChars == {"B"}

\* a lower() that leaves the string as it is
LowerNoop(str) == str

\* str.lower()
Lower(str) == [i \in 1..Len(str) |-> IF str[i] = "B" THEN "b" ELSE str[i]]

\* [token.lemma_.lower() for token in doc if not token.is_punct]
RECURSIVE LemmaTokens(_)
LemmaTokens(doc) ==
    IF doc = <<>> THEN <<>>
    ELSE (IF Head(doc).is_punct THEN <<>> ELSE <<Lower(Head(doc).lemma_)>>)
         \o LemmaTokens(Tail(doc))

Reverse(s) == [i \in 1..Len(s) |-> s[Len(s) + 1 - i]]

\* a minibatch handed over in reverse order
NextBatchReversed(ts, c, bs) == Reverse(SubSeq(ts, c + 1, Min(c + bs, Len(ts))))

\* the next minibatch nlp.pipe takes from the iterable: up to bs texts
NextBatch(ts, c, bs) == SubSeq(ts, c + 1, Min(c + bs, Len(ts)))

DocTexts == SeqsUpTo(Vocab, MaxDocLen)

DocInit ==
    /\ doc_text \in DocTexts
    /\ doc_tokens = <<>>
    /\ pc_doc = "call"

\* the inner comprehension over the Doc of one text (line 152)
TokensOfDoc ==
    /\ pc_doc = "call"
    /\ doc_tokens' = LemmaTokens(nlp(doc_text))
    /\ pc_doc' = "listed"
    /\ UNCHANGED doc_text
    /\ UNCHANGED notDocVars

DocNext == TokensOfDoc

LemInit ==
    /\ texts \in SeqsUpTo(Texts, MaxTexts)
    /\ model_ok \in BOOLEAN
    /\ batch_size \in BatchSizes
    /\ consumed = 0
    /\ out = <<>>
    /\ pc_lem = "load"
    /\ lem_result = NoResult

\* spacy.load(model, ...) succeeds (line 144)
LoadModel ==
    /\ pc_lem = "load"
    /\ model_ok
    /\ pc_lem' = "pipe"
    /\ UNCHANGED <<texts, model_ok, batch_size, consumed, out, lem_result>>
    /\ UNCHANGED notLemVars

\* a load failure that is swallowed: the pipe is started all the same
LoadFailIgnored ==
    /\ pc_lem = "load"
    /\ ~model_ok
    /\ pc_lem' = "pipe"
    /\ UNCHANGED <<texts, model_ok, batch_size, consumed, out, lem_result>>
    /\ UNCHANGED notLemVars

\* spacy.load raises OSError, re-raised with the install hint (lines 145-149)
LoadFail ==
    /\ pc_lem = "load"
    /\ ~model_ok
    /\ pc_lem' = "raised"
    /\ lem_result' = ModelNotFound
    /\ UNCHANGED <<texts, model_ok, batch_size, consumed, out>>
    /\ UNCHANGED notLemVars

\* a comprehension that leaves out the documents without tokens
PipeBatchSkipEmpty ==
    /\ pc_lem = "pipe"
    /\ consumed < Len(texts)
    /\ LET batch == NextBatch(texts, consumed, batch_size)
           lists == [i \in 1..Len(batch) |-> LemmaTokens(nlp(batch[i]))]
       IN  /\ out' = out \o SelectSeq(lists, LAMBDA l : l # <<>>)
           /\ consumed' = consumed + Len(batch)
    /\ UNCHANGED <<texts, model_ok, batch_size, pc_lem, lem_result>>
    /\ UNCHANGED notLemVars

\* the comprehension drains one minibatch of nlp.pipe (lines 151-154)
PipeBatch ==
    /\ pc_lem = "pipe"
    /\ consumed < Len(texts)
    /\ LET batch == NextBatch(texts, consumed, batch_size)
       IN  /\ out' = out \o [i \in 1..Len(batch) |-> LemmaTokens(nlp(batch[i]))]
           /\ consumed' = consumed + Len(batch)
    /\ UNCHANGED <<texts, model_ok, batch_size, pc_lem, lem_result>>
    /\ UNCHANGED notLemVars

\* the iterable is exhausted: the list is returned
LemReturn ==
    /\ pc_lem = "pipe"
    /\ consumed = Len(texts)
    /\ lem_result' = Returned(out)
    /\ pc_lem' = "done"
    /\ UNCHANGED <<texts, model_ok, batch_size, consumed, out>>
    /\ UNCHANGED notLemVars

LemNext == LoadModel \/ LoadFail \/ PipeBatch \/ LemReturn

(***************************************************************************)
(* save_parquet                                                            *)
(***************************************************************************)
Parquet == <<".", "p", "a", "r", "q", "u", "e", "t">>
ParquetUpper == <<".", "P", "A", "R", "Q", "U", "E", "T">>
Csv == <<".", "c", "s", "v">>

SaveStems == {<<>>, <<"x">>, <<"x">> \o Csv, <<"x">> \o Parquet, <<"x", ".">>}
SaveTails == {<<>>, Parquet, Csv, ParquetUpper, Parquet \o <<".">>,
              SubSeq(Parquet, 1, 7), Tail(Parquet)}
SavePaths == {s \o t : s \in SaveStems, t \in SaveTails} \ {<<>>}

\* written[p]: the frames stored under p, none or one
Absent == <<>>
OldFile == <<DataFrame(<<<<"o", "l", "d">>>>, <<<<"1">>>>, <<<<"o">>>>)>>

SaveFrames == {DataFrame(<<>>, <<>>, <<>>),
               DataFrame(<<<<"B">>>>, <<<<"9">>>>, <<<<"B", "_", "9">>>>)}

\* path ends with the characters ".parquet" (str.endswith)
EndsWithParquet(path) ==
    /\ Len(path) >= Len(Parquet)
    /\ SubSeq(path, Len(path) - Len(Parquet) + 1, Len(path)) = Parquet

\* not (path.suffix != '.parquet')  (line 172)
HasParquetSuffix(path) == Suffix(path) = Parquet

SaveInit ==
    /\ save_path \in SavePaths
    /\ save_df \in SaveFrames
    /\ written \in {[p \in SavePaths |-> Absent]} \cup
                   {[p \in SavePaths |-> IF p = q THEN OldFile ELSE Absent] :
                        q \in SavePaths}
    /\ pc_save = "call"

\* raise ValueError before df.to_parquet is reached (lines 172-173)
SaveReject ==
    /\ pc_save = "call"
    /\ ~HasParquetSuffix(save_path)
    /\ pc_save' = "raised"
    /\ UNCHANGED <<save_path, save_df, written>>
    /\ UNCHANGED notSaveVars

\* df.to_parquet(path, ...) (line 175)
SaveWrite ==
    /\ pc_save = "call"
    /\ HasParquetSuffix(save_path)
    /\ written' = [written EXCEPT ![save_path] = <<save_df>>]
    /\ pc_save' = "saved"
    /\ UNCHANGED <<save_path, save_df>>
    /\ UNCHANGED notSaveVars

SaveNext == SaveReject \/ SaveWrite

(***************************************************************************)
(* verify_environment                                                      *)
(***************************************************************************)
REQUIRED_PACKAGES ==
    << [pkg |-> "pandas",  req_version |-> "2.0.3"],
       [pkg |-> "spacy",   req_version |-> "3.7.2"],
       [pkg |-> "numpy",   req_version |-> "1.24.3"],
       [pkg |-> "pyarrow", req_version |-> "13.0.0"] >>

OtherVersion == "0.0.1"
PackageNotFound == "PackageNotFoundError"

\* importlib.metadata.version(pkg) for each required package
Environments ==
    [1..Len(REQUIRED_PACKAGES) -> {"required", "other", "absent"}]

VersionOf(env, i) ==
    IF env[i] = "required" THEN REQUIRED_PACKAGES[i].req_version
    ELSE IF env[i] = "other" THEN OtherVersion
    ELSE PackageNotFound

EnvInit ==
    /\ installed \in {[i \in 1..Len(REQUIRED_PACKAGES) |-> VersionOf(env, i)] :
                        env \in Environments}
    /\ pkg_idx = 1
    /\ missing = <<>>
    /\ warnings = <<>>
    /\ pc_env = "loop"

\* a loop body that counts a version mismatch as a missing package
EnvCheckFoundStrict ==
    /\ pc_env = "loop"
    /\ pkg_idx <= Len(REQUIRED_PACKAGES)
    /\ installed[pkg_idx] # PackageNotFound
    /\ missing' = IF installed[pkg_idx] # REQUIRED_PACKAGES[pkg_idx].req_version
                  THEN Append(missing, REQUIRED_PACKAGES[pkg_idx].pkg)
                  ELSE missing
    /\ pkg_idx' = pkg_idx + 1
    /\ UNCHANGED <<installed, warnings, pc_env>>
    /\ UNCHANGED notEnvVars

\* version(pkg) returns: warn on a mismatch, go on (lines 58-60)
EnvCheckFound ==
    /\ pc_env = "loop"
    /\ pkg_idx <= Len(REQUIRED_PACKAGES)
    /\ installed[pkg_idx] # PackageNotFound
    /\ warnings' = IF installed[pkg_idx] # REQUIRED_PACKAGES[pkg_idx].req_version
                   THEN Append(warnings, REQUIRED_PACKAGES[pkg_idx].pkg)
                   ELSE warnings
    /\ pkg_idx' = pkg_idx + 1
    /\ UNCHANGED <<installed, missing, pc_env>>
    /\ UNCHANGED notEnvVars

\* version(pkg) raises PackageNotFoundError (lines 61-62)
EnvCheckMissing ==
    /\ pc_env = "loop"
    /\ pkg_idx <= Len(REQUIRED_PACKAGES)
    /\ installed[pkg_idx] = PackageNotFound
    /\ missing' = Append(missing, REQUIRED_PACKAGES[pkg_idx].pkg)
    /\ pkg_idx' = pkg_idx + 1
    /\ UNCHANGED <<installed, warnings, pc_env>>
    /\ UNCHANGED notEnvVars

\* if missing: raise ImportError (lines 64-66)
EnvRaise ==
    /\ pc_env = "loop"
    /\ pkg_idx > Len(REQUIRED_PACKAGES)
    /\ missing # <<>>
    /\ pc_env' = "raised"
    /\ UNCHANGED <<installed, pkg_idx, missing, warnings>>
    /\ UNCHANGED notEnvVars

\* "Environment validation passed" (line 68)
EnvPass ==
    /\ pc_env = "loop"
    /\ pkg_idx > Len(REQUIRED_PACKAGES)
    /\ missing = <<>>
    /\ pc_env' = "passed"
    /\ UNCHANGED <<installed, pkg_idx, missing, warnings>>
    /\ UNCHANGED notEnvVars

EnvNext == EnvCheckFound \/ EnvCheckMissing \/ EnvRaise \/ EnvPass

(***************************************************************************)
(* Specifications: one per function, the other functions' state at rest    *)
(***************************************************************************)
GetIdle ==
    /\ text_files = <<>> /\ disk = <<>> /\ countries = <<>> /\ years = <<>>
    /\ constitutions = <<>> /\ idx = 1 /\ pc_get = "idle" /\ df = NoFrame

LemIdle ==
    /\ texts = <<>> /\ model_ok = TRUE /\ batch_size = batch_size_default
    /\ consumed = 0 /\ out = <<>> /\ pc_lem = "idle" /\ lem_result = NoResult

SaveIdle ==
    /\ save_path = <<>> /\ save_df = NoFrame /\ written = <<>> /\ pc_save = "idle"

EnvIdle ==
    /\ installed = <<>> /\ pkg_idx = 1 /\ missing = <<>> /\ warnings = <<>>
    /\ pc_env = "idle"

ParseIdle ==
    /\ parse_name = <<>> /\ parse_country = <<>> /\ parse_year = <<>>
    /\ pc_parse = "idle"

DocIdle ==
    /\ doc_text = <<>> /\ doc_tokens = <<>> /\ pc_doc = "idle"

InitGetDf == GetInit /\ LemIdle /\ SaveIdle /\ EnvIdle /\ ParseIdle /\ DocIdle
SpecGetDf == InitGetDf /\ [][GetNext]_vars

InitLemma == LemInit /\ GetIdle /\ SaveIdle /\ EnvIdle /\ ParseIdle /\ DocIdle
SpecLemma == InitLemma /\ [][LemNext]_vars

InitSave == SaveInit /\ GetIdle /\ LemIdle /\ EnvIdle /\ ParseIdle /\ DocIdle
SpecSave == InitSave /\ [][SaveNext]_vars

InitEnv == EnvInit /\ GetIdle /\ LemIdle /\ SaveIdle /\ ParseIdle /\ DocIdle
SpecEnv == InitEnv /\ [][EnvNext]_vars

InitParse == ParseInit /\ GetIdle /\ LemIdle /\ SaveIdle /\ EnvIdle /\ DocIdle
SpecParse == InitParse /\ [][ParseNext]_vars

InitDoc == DocInit /\ GetIdle /\ LemIdle /\ SaveIdle /\ EnvIdle /\ ParseIdle
SpecDoc == InitDoc /\ [][DocNext]_vars

(***************************************************************************)
(* Properties                                                              *)
(***************************************************************************)
HasChar(str, c) == \E k \in 1..Len(str) : str[k] = c

AllReadable == \A i \in 1..Len(text_files) : disk[text_files[i]] # Missing

\* C1: get_df returns one row per input path, row i holding the country,
\* year and decoded content of text_files[i]; nothing is dropped, merged or
\* reordered, and a list of readable paths never raises.
C1_RowPerFile ==
    /\ pc_get = "done" =>
        /\ NRows(df) = Len(text_files)
        /\ \A k \in 1..Len(df.data) : Len(df.data[k]) = Len(text_files)
        /\ \A i \in 1..Len(text_files) :
              Row(df, i) = << CountryOf(Stem(text_files[i])),
                              YearOf(Stem(text_files[i])),
                              Decode(disk[text_files[i]]) >>
    /\ AllReadable => pc_get # "raised"

\* two different paths with the same (country, year), both kept
C1_Witness ==
    /\ pc_get = "done"
    /\ Len(text_files) = 2
    /\ text_files[1] # text_files[2]
    /\ Row(df, 1)[1] = Row(df, 2)[1]
    /\ Row(df, 1)[2] = Row(df, 2)[2]
    /\ Row(df, 1)[3] # Row(df, 2)[3]

\* C2: year is the part of the base name after its last '_' (the whole base
\* name when there is none), country is the part before that '_' with every
\* '_' turned into a space (empty when there is no '_').
C2_ParseName ==
    pc_parse = "parsed" =>
        LET stem   == Stem(parse_name)
            prefix == SubSeq(stem, 1, Len(stem) - Len(parse_year))
        IN  /\ ~HasChar(parse_year, "_")
            /\ Len(parse_year) <= Len(stem)
            /\ stem = prefix \o parse_year
            /\ prefix # <<>> => prefix[Len(prefix)] = "_"
            /\ Len(parse_country) = IF prefix = <<>> THEN 0 ELSE Len(prefix) - 1
            /\ \A k \in 1..Len(parse_country) :
                  parse_country[k] = IF prefix[k] = "_" THEN " " ELSE prefix[k]
            /\ ~HasChar(stem, "_") => parse_country = <<>> /\ parse_year = stem

\* South_Africa_1996 in small: two country segments joined by one space
C2_Witness ==
    /\ pc_parse = "parsed"
    /\ parse_name = <<"B", "_", "B", "_", "9">> \o TxtExt
    /\ parse_country = <<"B", " ", "B">>
    /\ parse_year = <<"9">>

\* C3: when a file of the list cannot be opened, get_df raises and hands no
\* frame to its caller, wherever the file stands in the list.
C3_NoPartialTable ==
    /\ ~AllReadable => pc_get # "done" /\ df = NoFrame
    /\ pc_get = "raised" =>
        /\ df = NoFrame
        /\ disk[text_files[idx]] = Missing
        /\ \A i \in 1..(idx - 1) : disk[text_files[i]] # Missing

\* the failing file is the second one, after a file was read
C3_Witness ==
    /\ pc_get = "raised"
    /\ idx = 2
    /\ Len(constitutions) = 1

\* C4: with a model that cannot be loaded, lemmatization raises its
\* model-not-found error, no text is taken from the iterable and no list is
\* returned.
C4_FailBeforeTexts ==
    ~model_ok =>
        /\ consumed = 0
        /\ out = <<>>
        /\ pc_lem \in {"idle", "load", "raised"}
        /\ lem_result = IF pc_lem = "raised" THEN ModelNotFound ELSE NoResult

C4_Witness ==
    /\ pc_lem = "raised"
    /\ ~model_ok
    /\ Len(texts) = 2
    /\ lem_result = ModelNotFound

\* C5: the returned list has one token list per input text, at the text's
\* position; an empty text gives an empty token list there.
C5_OnePerText ==
    pc_lem = "done" =>
        /\ lem_result.status = "returned"
        /\ Len(lem_result.value) = Len(texts)
        /\ \A i \in 1..Len(texts) :
              /\ lem_result.value[i] = LemmaTokens(nlp(texts[i]))
              /\ texts[i] = <<>> => lem_result.value[i] = <<>>

C5_Witness ==
    /\ pc_lem = "done"
    /\ Len(texts) = 2
    /\ texts[1] = <<>>
    /\ lem_result.value[1] = <<>>
    /\ lem_result.value[2] # <<>>

\* the documents processed one at a time
RECURSIVE OneAtATime(_)
OneAtATime(ts) ==
    IF ts = <<>> THEN <<>>
    ELSE <<LemmaTokens(nlp(Head(ts)))>> \o OneAtATime(Tail(ts))

C7_RejectBeforeWrite ==
    /\ Suffix(save_path) # Parquet =>
        /\ pc_save # "saved"
        /\ \A p \in DOMAIN written : written[p] \in {Absent, OldFile}
    /\ Suffix(save_path) = Parquet => pc_save # "raised"

\* x.csv is rejected and the file already there is left as it was
C7_Witness ==
    /\ pc_save = "raised"
    /\ save_path = <<"x">> \o Csv
    /\ written[save_path] = OldFile

\* C8 as stated: the three columns are country, year and text.
C8_ColumnsText ==
    pc_get = "done" => df.columns = <<"country", "year", "text">>

\* C8: the returned frame has exactly three columns, named country, year
\* and constitution, in this order.
C8_Columns ==
    pc_get = "done" =>
        /\ df.columns = <<"country", "year", "constitution">>
        /\ Len(df.data) = 3

C8_Witness ==
    /\ pc_get = "done"
    /\ NRows(df) = 2
    /\ Len(df.columns) = 3

\* C9: the token list of a document is the document's tokens without the
\* punctuation tokens, each replaced by its lowercased lemma, in token order;
\* no returned string holds an uppercase letter.
C9_LowerLemmas ==
    pc_doc = "listed" =>
        LET doc     == nlp(doc_text)
            keptIdx == {j \in 1..Len(doc) : ~doc[j].is_punct}
            \* the position in doc of the n-th token that is kept
            Pos(n)  == CHOOSE j \in keptIdx :
                           Cardinality({m \in keptIdx : m <= j}) = n
        IN  /\ Len(doc_tokens) = Cardinality(keptIdx)
            /\ \A n \in 1..Len(doc_tokens) :
                  /\ Len(doc_tokens[n]) = Len(doc[Pos(n)].lemma_)
                  /\ \A k \in 1..Len(doc_tokens[n]) :
                        /\ doc_tokens[n][k] \notin UpperChars
                        /\ \/ doc_tokens[n][k] = doc[Pos(n)].lemma_[k]
                           \/ /\ doc[Pos(n)].lemma_[k] \in UpperChars
                              /\ doc_tokens[n][k] # doc[Pos(n)].lemma_[k]

\* two words in order around a punctuation mark
C9_Witness ==
    /\ pc_doc = "listed"
    /\ doc_text = << <<"l", "a", "w", "s">>, <<".">>, <<"B", "r">> >>
    /\ doc_tokens = << <<"l", "a", "w">>, <<"b", "r">> >>

Checked == pkg_idx > Len(REQUIRED_PACKAGES)
Mismatch(i) ==
    /\ installed[i] # PackageNotFound
    /\ installed[i] # REQUIRED_PACKAGES[i].req_version

\* C10: verify_environment raises exactly when some required package is not
\* installed, and only after every package was checked; a version mismatch
\* is logged as a warning and does not make it raise.
C10_RaiseIffMissing ==
    /\ pc_env = "raised" =>
        /\ Checked
        /\ \E i \in 1..Len(REQUIRED_PACKAGES) : installed[i] = PackageNotFound
    /\ pc_env = "passed" =>
        /\ Checked
        /\ \A i \in 1..Len(REQUIRED_PACKAGES) : installed[i] # PackageNotFound
    /\ \A i \in 1..Len(REQUIRED_PACKAGES) :
          (i < pkg_idx /\ Mismatch(i)) <=>
              \E k \in 1..Len(warnings) : warnings[k] = REQUIRED_PACKAGES[i].pkg

\* every package installed, one at another version: a warning, no failure
C10_Witness ==
    /\ pc_env = "passed"
    /\ Len(warnings) = 1
    /\ Mismatch(2)
====
